---- MODULE Spec2Model ----
(***************************************************************************)
(* Model of the daily crypto forecasting pipeline:                         *)
(*   daily_runner.run_daily_analysis  (the orchestrator loop),             *)
(*   data_utils.fetch_data and its provider helpers (enrichment),          *)
(*   db_utils (init_db, save_forecast_results, load_forecast_results,      *)
(*   update_feedback).                                                     *)
(* A data frame is modelled by its number of rows and, per provider, the   *)
(* value that provider's columns hold (the code broadcasts one scalar per  *)
(* column over the whole frame).                                           *)
(***************************************************************************)
EXTENDS Integers, Sequences, FiniteSets, TLC

VARIABLES
    pc,           \* position of run_daily_analysis
    idx,          \* index in COINS of the asset being processed
    env,          \* what the outside world answered to the current fetch_data
    market_data,  \* frame returned by fetch_data for the current asset
    prophet_price,
    lstm_price,
    status,       \* per asset: PENDING, SKIPPED, ADDED
    cause,        \* per asset: why it was skipped
    trace,        \* per asset: the steps run for it, in order
    csv,          \* assets whose detail file was written in this run
    all_results,  \* the batch of assembled records
    run_time,     \* timestamp of the run
    runs,         \* number of runs started
    log,          \* log lines written
    tableExists,  \* the forecasts table exists
    table,        \* committed rows of forecasts, in insertion order
    nextId,       \* next value of the id sequence
    tx,           \* rows inserted by the open to_sql transaction
    saveCalls,    \* calls of save_forecast_results in the current run
    outcome,      \* how the last run ended
    loaded,       \* what the last load_forecast_results returned
    lastOp,       \* the last db_utils call made by the dashboard
    fnCall,       \* the last call of a function applied on its own, with its inputs
    fnResult,     \* what that call returned
    cache,        \* the st.cache_data entry of get_historical_data
    page          \* what the last run of the dashboard script got and drew

runVars  == <<pc, idx, env, market_data, prophet_price, lstm_price, status, cause,
              trace, csv, all_results, run_time, runs, log, saveCalls, outcome>>
dbVars   == <<tableExists, table, nextId, tx>>
dashVars == <<loaded, lastOp>>
fnVars   == <<fnCall, fnResult>>
pageVars == <<cache, page>>
vars     == <<runVars, dbVars, dashVars, fnVars, pageVars>>

----------------------------------------------------------------------------
(* Program constants *)

\* daily_runner.py:48  COINS (a dict, iterated in insertion order)
COINS == <<"BTC-USD", "ETH-USD", "XRP-USD">>
Coins == {COINS[i] : i \in 1..Len(COINS)}

\* daily_runner.py:78  len(market_data) < 61
MinRows == 61

\* forecasting.py:50  look_back_period
LookBack == 60

\* None, as a provider hands it back for a JSON null
NULL == -1

\* np.nan, the forecast functions' no-result sentinel
NaN == -1

Providers == {"coingecko", "coinglass", "santiment", "lunarcrush"}

----------------------------------------------------------------------------
(* Bounds of the model *)

\* rows of a fetched frame range up to MinRows + MaxExtraRows
MaxExtraRows == 1
\* a fetched metric is a value in 1..MaxMetric (0 is the default)
MaxMetric == 1
\* a forecast is a value in 1..MaxForecast
MaxForecast == 1
\* timestamps are 1..MaxDate
MaxDate == 2
\* runs of run_daily_analysis
MaxRuns == 2
\* rows the forecasts table can hold
MaxTableRows == 3
\* update_feedback calls
MaxFeedbackCalls == 2
\* a closing price is a value in 1..MaxPrice
MaxPrice == 1
\* clicks on the feedback buttons of the dashboard page
MaxClicks == 1

----------------------------------------------------------------------------
(* The outside world, as fetch_data sees it *)

\* rows of the price frame that survive dropna when no metric column is null
CleanRows == {0, MinRows - 1} \cup (MinRows .. MinRows + MaxExtraRows)

\* yf.download: raises, returns an empty frame, or returns bars
PriceOutcomes ==
    {[kind |-> "raise", clean |-> 0], [kind |-> "empty", clean |-> 0]}
    \cup {[kind |-> "bars", clean |-> n] : n \in CleanRows}

\* what an HTTP call to a metric provider can give:
\*   neterr     the request raises (connection error, timeout)
\*   non2xx     a response with an error status
\*   badshape   valid JSON of an unexpected shape (a nested object is null)
\*   nofield    the expected field is absent
\*   nullfield  the expected field is present with the value null
\*   ok         the expected fields with a value
HttpOutcomes ==
    {[kind |-> k, val |-> 0] : k \in {"neterr", "non2xx", "badshape", "nofield", "nullfield"}}
    \cup {[kind |-> "ok", val |-> v] : v \in 1..MaxMetric}

NotSent == [kind |-> "notsent", val |-> 0]

\* results of a provider helper: {} , a dict of metrics, or an exception
EmptyDict  == [kind |-> "empty", val |-> 0]
Metrics(v) == [kind |-> "metrics", val |-> v]
Raised     == [kind |-> "raise", val |-> 0]

\* one provider as the current call finds it: its API key and its answer
ProviderEnv(p) ==
    IF p = "coingecko"
    THEN {[key |-> k, resp |-> r] : k \in BOOLEAN, r \in HttpOutcomes}
    ELSE {[key |-> FALSE, resp |-> NotSent]}
         \cup {[key |-> TRUE, resp |-> r] : r \in HttpOutcomes}

AllProviderEnv == UNION {ProviderEnv(p) : p \in Providers}

NoResp == [p \in Providers |-> [key |-> FALSE, resp |-> NotSent]]

FetchEnvs ==
    {[price |-> pr, resp |-> NoResp] :
        pr \in {x \in PriceOutcomes : x.kind # "bars"}}
    \cup {[price |-> pr, resp |-> f] :
            pr \in {x \in PriceOutcomes : x.kind = "bars"},
            f \in {g \in [Providers -> AllProviderEnv] :
                     \A p \in Providers : g[p] \in ProviderEnv(p)}}

NoEnv == [price |-> [kind |-> "none", clean |-> 0], resp |-> NoResp]

----------------------------------------------------------------------------
(* data_utils.py: provider helpers.  Each takes the provider as the call   *)
(* finds it and returns {} , a dict of metrics, or raises.                 *)

\* data_utils.py:134-157.  No key check: the request is sent with whatever
\* os.getenv gave.  Only requests.exceptions.RequestException is caught, so
\* an AttributeError from .get on a null nested object leaves the helper.
\* data.get(field, 0) gives None for a field that is present and null.
fetch_coingecko_data(e) ==
    CASE e.resp.kind \in {"neterr", "non2xx"} -> EmptyDict
      [] e.resp.kind = "badshape"             -> Raised
      [] e.resp.kind = "nofield"              -> Metrics(0)
      [] e.resp.kind = "nullfield"            -> Metrics(NULL)
      [] OTHER                                -> Metrics(e.resp.val)

\* data_utils.py:15-63.  Missing key: {}.  A non-2xx response, or one
\* without Binance data, returns the dict of zeros built at line 30; any
\* exception returns {}.
fetch_coinglass_data(e) ==
    IF ~e.key THEN EmptyDict
    ELSE CASE e.resp.kind \in {"neterr", "badshape"}  -> EmptyDict
           [] e.resp.kind \in {"non2xx", "nofield"}   -> Metrics(0)
           [] e.resp.kind = "nullfield"               -> Metrics(NULL)
           [] OTHER                                   -> Metrics(e.resp.val)

\* data_utils.py:72-105.  Missing key: {}.  Any exception: {}.  An empty
\* timeseries or a null last point gives 0.0; a last point {"value": null}
\* gives None.
fetch_santiment_data(e) ==
    IF ~e.key THEN EmptyDict
    ELSE CASE e.resp.kind \in {"neterr", "non2xx", "badshape"} -> EmptyDict
           [] e.resp.kind = "nofield"                          -> Metrics(0)
           [] e.resp.kind = "nullfield"                        -> Metrics(NULL)
           [] OTHER                                            -> Metrics(e.resp.val)

\* data_utils.py:107-132.  Missing key: {}.  Any exception: {}.
fetch_lunarcrush_data(e) ==
    IF ~e.key THEN EmptyDict
    ELSE CASE e.resp.kind \in {"neterr", "non2xx", "badshape"} -> EmptyDict
           [] e.resp.kind = "nofield"                          -> Metrics(0)
           [] e.resp.kind = "nullfield"                        -> Metrics(NULL)
           [] OTHER                                            -> Metrics(e.resp.val)

\* the helper fetch_data calls for provider p
Helper(p, e) ==
    CASE p = "coingecko" -> fetch_coingecko_data(e)
      [] p = "coinglass" -> fetch_coinglass_data(e)
      [] p = "santiment" -> fetch_santiment_data(e)
      [] OTHER           -> fetch_lunarcrush_data(e)

----------------------------------------------------------------------------
(* data_utils.py:159-221  fetch_data *)

EmptyFrame == [rows |-> 0, col |-> [p \in Providers |-> 0]]

\* lines 193-211: df[column] = result.get(field, default)
Column(result) == IF result.kind = "metrics" THEN result.val ELSE 0

\* line 216: df.dropna drops every row that holds a missing value; a metric
\* column is constant, so one null metric drops every row
DropNa(frame, clean) ==
    IF \E p \in Providers : frame.col[p] = NULL
    THEN EmptyFrame
    ELSE IF clean = 0 THEN EmptyFrame ELSE [frame EXCEPT !.rows = clean]

fetch_dataKeepsFrameMutant(e) ==
    IF e.price.kind # "bars" THEN EmptyFrame
    ELSE DropNa([rows |-> e.price.clean,
                 col  |-> [p \in Providers |-> Column(Helper(p, e.resp[p]))]],
                e.price.clean)

\* the whole function: line 169-170 (download, empty check), 187-191 (the
\* helpers, in order), 193-214 (columns), 216 (dropna), 219-221 (any
\* exception gives an empty frame)
fetch_data(e) ==
    IF e.price.kind # "bars" THEN EmptyFrame
    ELSE IF \E p \in Providers : Helper(p, e.resp[p]).kind = "raise"
         THEN EmptyFrame
         ELSE DropNa([rows |-> e.price.clean,
                      col  |-> [p \in Providers |-> Column(Helper(p, e.resp[p]))]],
                     e.price.clean)

\* the providers fetch_data called: none when the price frame is empty or
\* the download raised
ProvidersCalled(e) == IF e.price.kind = "bars" THEN Providers ELSE {}

----------------------------------------------------------------------------
(* forecasting.py *)

\* what a model fit can give: an exception, or a prediction
Fits == {NaN} \cup (1..MaxForecast)

\* forecasting.py:12-48.  An empty frame gives np.nan; any exception in
\* the fit gives np.nan (fit = NaN stands for a fit that raised).
prophet_forecast(frame, fit) ==
    IF frame.rows = 0 THEN NaN ELSE fit

lstm_forecastStrictlyFewerMutant(frame, fit) ==
    IF frame.rows = 0 \/ frame.rows < LookBack THEN NaN ELSE fit

\* forecasting.py:50-104.  At most look_back_period rows give np.nan.
lstm_forecast(frame, fit) ==
    IF frame.rows = 0 \/ frame.rows <= LookBack THEN NaN ELSE fit

----------------------------------------------------------------------------
(* sentiment.py:7  def get_news_sentiment(coin_ticker, coin_name)          *)
(* daily_runner.py:92  the call passes coin_ticker, coin_name and api_key  *)

SentimentParams == {"coin_ticker", "coin_name"}
SentimentCallKeywords == {"coin_ticker", "coin_name", "api_key"}

\* sentiment.py:7  "-> float": one value is returned
SentimentReturns == 1
\* daily_runner.py:92  "sentiment_score, top_headlines = ...": two targets
SentimentTargets == 2

CallNeverRaisesMutant(params, keywords, returned, targets) == FALSE

\* a Python call raises TypeError when it passes a keyword the function
\* does not take, or leaves a required parameter out; unpacking raises
\* TypeError when the value is not a sequence of as many items as targets
CallRaisesTypeError(params, keywords, returned, targets) ==
    keywords # params \/ returned # targets

----------------------------------------------------------------------------
(* daily_runner.py:33-44  the imports of the module *)

\* forecasting.py:12, 50: the functions the module defines
ForecastingDefines == {"prophet_forecast", "lstm_forecast"}

\* daily_runner.py:35: the names imported from forecasting
ImportedFromForecasting == {"prophet_forecast", "lstm_forecast", "prophet_forecast_highs"}

\* "from m import a, b" raises ImportError when m does not define a name
ImportRaises(imported, defined) == ~(imported \subseteq defined)

\* lines 33-44: an ImportError is logged as fatal and the process exits
\* with status 1, before run_daily_analysis is defined or called
ModuleLoad ==
    IF ImportRaises(ImportedFromForecasting, ForecastingDefines) THEN "exit1" ELSE "loaded"

----------------------------------------------------------------------------
(* daily_runner.py:58-192  run_daily_analysis *)

Coin == COINS[idx]

NoRecordYet == [c \in Coins |-> "PENDING"]

InsufficientOnlyEmptyMutant(frame) == frame.rows = 0

\* line 78: market_data.empty or len(market_data) < 61
Insufficient(frame) == frame.rows = 0 \/ frame.rows < MinRows

\* the locals of one iteration, cleared when the iteration ends
ClearLocals ==
    /\ env' = NoEnv
    /\ market_data' = EmptyFrame
    /\ prophet_price' = 0
    /\ lstm_price' = 0

ExceptPropagatesMutant(step) ==
    /\ log' = log \cup {<<"ERROR", "asset", Coin>>}
    /\ status' = [status EXCEPT ![Coin] = "SKIPPED"]
    /\ cause' = [cause EXCEPT ![Coin] = step]
    /\ idx' = idx
    /\ pc' = "exit"
    /\ ClearLocals

ExceptRetriesMutant(step) ==
    /\ log' = log \cup {<<"ERROR", "asset", Coin>>}
    /\ status' = [status EXCEPT ![Coin] = "SKIPPED"]
    /\ cause' = [cause EXCEPT ![Coin] = step]
    /\ idx' = idx
    /\ pc' = "loop"
    /\ ClearLocals

\* lines 180-182: except Exception: logger.error(...); continue
Except(step) ==
    /\ log' = log \cup {<<"ERROR", "asset", Coin>>}
    /\ status' = [status EXCEPT ![Coin] = "SKIPPED"]
    /\ cause' = [cause EXCEPT ![Coin] = step]
    /\ idx' = idx + 1
    /\ pc' = "loop"
    /\ ClearLocals

init_dbRecreatesMutant(exists, committed) == [exists |-> TRUE, rows |-> <<>>]

\* db_utils.py:108-117: create_all only when the inspector finds no
\* forecasts table; an existing table and its rows are left as they are
init_db(exists, committed) ==
    IF ~exists THEN [exists |-> TRUE, rows |-> <<>>]
    ELSE [exists |-> TRUE, rows |-> committed]

\* lines 59-71, one run of the script (a new process, so a new log):
\* init_db() (create the table when it is missing), exit(1) when it raises;
\* then run_time, all_results
RunStart ==
    /\ pc \in {"start", "done", "exit"}
    /\ runs < MaxRuns
    /\ \E ok \in BOOLEAN :
         IF ok
         THEN /\ tableExists' = init_db(tableExists, table).exists
              /\ table' = init_db(tableExists, table).rows
              /\ \E t \in 1..MaxDate : run_time' = t
              /\ pc' = "loop"
              /\ idx' = 1
              /\ log' = {<<"INFO", "start", "">>}
              /\ outcome' = "running"
         ELSE /\ log' = {<<"INFO", "start", "">>, <<"FATAL", "init_db", "">>}
              /\ pc' = "exit"
              /\ outcome' = "exit1"
              /\ UNCHANGED <<tableExists, table, run_time, idx>>
    /\ all_results' = <<>>
    /\ saveCalls' = 0
    /\ runs' = runs + 1
    /\ status' = NoRecordYet
    /\ cause' = [c \in Coins |-> "none"]
    /\ trace' = [c \in Coins |-> <<>>]
    /\ csv' = {}
    /\ ClearLocals
    /\ UNCHANGED <<fnVars, pageVars>>
    /\ UNCHANGED <<nextId, tx, dashVars>>

\* line 76: market_data = fetch_data(ticker)
FetchStep ==
    /\ pc = "loop"
    /\ idx <= Len(COINS)
    /\ \E e \in FetchEnvs :
         /\ env' = e
         /\ market_data' = fetch_data(e)
    /\ trace' = [trace EXCEPT ![Coin] = Append(@, "fetch")]
    /\ pc' = "check"
    /\ UNCHANGED <<fnVars, pageVars>>
    /\ UNCHANGED <<idx, prophet_price, lstm_price, status, cause, csv, all_results,
                   run_time, runs, log, saveCalls, outcome, dbVars, dashVars>>

\* lines 78-80: the minimum-data check
CheckData ==
    /\ pc = "check"
    /\ IF Insufficient(market_data)
       THEN /\ log' = log \cup {<<"WARN", "insufficient", Coin>>}
            /\ status' = [status EXCEPT ![Coin] = "SKIPPED"]
            /\ cause' = [cause EXCEPT ![Coin] = "insufficient"]
            /\ idx' = idx + 1
            /\ pc' = "loop"
            /\ ClearLocals
       ELSE /\ pc' = "csv"
            /\ env' = NoEnv
            /\ UNCHANGED <<log, status, cause, idx, market_data, prophet_price, lstm_price>>
    /\ UNCHANGED <<fnVars, pageVars>>
    /\ UNCHANGED <<trace, csv, all_results, run_time, runs, saveCalls, outcome,
                   dbVars, dashVars>>

SaveCsvNoFileMutant ==
    /\ pc = "csv"
    /\ trace' = [trace EXCEPT ![Coin] = Append(@, "csv")]
    /\ pc' = "prophet"
    /\ UNCHANGED <<idx, env, market_data, prophet_price, lstm_price, status, cause, log, csv>>
    /\ UNCHANGED <<fnVars, pageVars>>
    /\ UNCHANGED <<all_results, run_time, runs, saveCalls, outcome, dbVars, dashVars>>

\* lines 83-86: market_data.to_csv(detailed_data_path); an OSError from the
\* write is caught by the per-asset handler
SaveCsv ==
    /\ pc = "csv"
    /\ trace' = [trace EXCEPT ![Coin] = Append(@, "csv")]
    /\ \E ok \in BOOLEAN :
         IF ok
         THEN /\ csv' = csv \cup {Coin}
              /\ pc' = "prophet"
              /\ UNCHANGED <<idx, env, market_data, prophet_price, lstm_price,
                             status, cause, log>>
         ELSE /\ Except("csv")
              /\ UNCHANGED csv
    /\ UNCHANGED <<fnVars, pageVars>>
    /\ UNCHANGED <<all_results, run_time, runs, saveCalls, outcome, dbVars, dashVars>>

\* line 89: prophet_price = prophet_forecast(market_data.copy())
ProphetStep ==
    /\ pc = "prophet"
    /\ \E fit \in Fits : prophet_price' = prophet_forecast(market_data, fit)
    /\ trace' = [trace EXCEPT ![Coin] = Append(@, "prophet")]
    /\ pc' = "lstm"
    /\ UNCHANGED <<fnVars, pageVars>>
    /\ UNCHANGED <<idx, env, market_data, lstm_price, status, cause, csv, all_results,
                   run_time, runs, log, saveCalls, outcome, dbVars, dashVars>>

\* line 90: lstm_price = lstm_forecast(market_data.copy())
LstmStep ==
    /\ pc = "lstm"
    /\ \E fit \in Fits : lstm_price' = lstm_forecast(market_data, fit)
    /\ trace' = [trace EXCEPT ![Coin] = Append(@, "lstm")]
    /\ pc' = "highs"
    /\ UNCHANGED <<fnVars, pageVars>>
    /\ UNCHANGED <<idx, env, market_data, prophet_price, status, cause, csv, all_results,
                   run_time, runs, log, saveCalls, outcome, dbVars, dashVars>>

\* line 91: high_forecasts_list = prophet_forecast_highs(market_data.copy(), periods=5)
\* forecasting.py does not define the function; it returns its list of
\* forecast points, or its no-result sentinel, without raising
HighsStep ==
    /\ pc = "highs"
    /\ trace' = [trace EXCEPT ![Coin] = Append(@, "highs")]
    /\ pc' = "sentiment"
    /\ UNCHANGED <<fnVars, pageVars>>
    /\ UNCHANGED <<idx, env, market_data, prophet_price, lstm_price, status, cause,
                   csv, all_results, run_time, runs, log, saveCalls, outcome,
                   dbVars, dashVars>>

\* line 92: sentiment_score, top_headlines =
\*              get_news_sentiment(coin_ticker=ticker, coin_name=name, api_key=news_api_key)
SentimentStep ==
    /\ pc = "sentiment"
    /\ trace' = [trace EXCEPT ![Coin] = Append(@, "sentiment")]
    /\ IF CallRaisesTypeError(SentimentParams, SentimentCallKeywords,
                              SentimentReturns, SentimentTargets)
       THEN Except("sentiment")
       ELSE /\ pc' = "briefing"
            /\ UNCHANGED <<idx, env, market_data, prophet_price, lstm_price,
                           status, cause, log>>
    /\ UNCHANGED <<fnVars, pageVars>>
    /\ UNCHANGED <<csv, all_results, run_time, runs, saveCalls, outcome, dbVars, dashVars>>

RunFinishIdlesMutant ==
    /\ pc = "loop"
    /\ idx > Len(COINS)
    /\ UNCHANGED vars

\* lines 184-192, after the loop: hand the batch to save_forecast_results,
\* or warn that there is nothing to save
RunFinish ==
    /\ pc = "loop"
    /\ idx > Len(COINS)
    /\ IF all_results # <<>>
       THEN /\ pc' = "save"
            /\ saveCalls' = saveCalls + 1
            /\ log' = log \cup {<<"INFO", "finish", "">>}
            /\ UNCHANGED outcome
       ELSE /\ pc' = "done"
            /\ outcome' = "finished"
            /\ log' = log \cup {<<"INFO", "finish", "">>, <<"WARN", "no_results", "">>}
            /\ UNCHANGED saveCalls
    /\ UNCHANGED <<fnVars, pageVars>>
    /\ UNCHANGED <<idx, env, market_data, prophet_price, lstm_price, status, cause,
                   trace, csv, all_results, run_time, runs, dbVars, dashVars>>

----------------------------------------------------------------------------
(* The run as written *)

NoOp == [op |-> "none", id |-> 0, feedback |-> "", correction |-> "", ok |-> FALSE,
         n |-> 0, rows |-> 0, again |-> FALSE, before |-> <<>>]

\* no function has been applied on its own
NoCall == [fn |-> "none"]

\* get_historical_data has no cached value
NoEntry == [cached |-> FALSE, rows |-> <<>>]

\* the dashboard script has not run
NoPage == [historical_df |-> <<>>, hit |-> FALSE, expired |-> FALSE, midsave |-> FALSE]

Init ==
    /\ pc = "start"
    /\ idx = 0
    /\ env = NoEnv
    /\ market_data = EmptyFrame
    /\ prophet_price = 0
    /\ lstm_price = 0
    /\ status = NoRecordYet
    /\ cause = [c \in Coins |-> "none"]
    /\ trace = [c \in Coins |-> <<>>]
    /\ csv = {}
    /\ all_results = <<>>
    /\ run_time = 0
    /\ runs = 0
    /\ log = {}
    /\ saveCalls = 0
    /\ outcome = "none"
    /\ tableExists \in BOOLEAN
    /\ table = <<>>
    /\ nextId = 1
    /\ tx = <<>>
    /\ loaded = <<>>
    /\ lastOp = NoOp
    /\ fnCall = NoCall
    /\ fnResult = NoCall
    /\ cache = NoEntry
    /\ page = NoPage

Next ==
    \/ RunStart
    \/ FetchStep
    \/ CheckData
    \/ SaveCsv
    \/ ProphetStep
    \/ LstmStep
    \/ HighsStep
    \/ SentimentStep
    \/ RunFinish

Spec == Init /\ [][Next]_vars

----------------------------------------------------------------------------
(* db_utils.py *)

None == "<None>"

RecordOwnTimeMutant(coin, t, price) ==
    [Date |-> IF coin = COINS[1] THEN t ELSE t + 1, Coin |-> coin, Actual_Price |-> price,
     user_feedback |-> None, user_correction |-> None]

\* daily_runner.py:126-178: the assembled record (the fields the claims
\* are about); user_feedback and user_correction are None
Record(coin, t, price) ==
    [Date |-> t, Coin |-> coin, Actual_Price |-> price,
     user_feedback |-> None, user_correction |-> None]

\* a timestamp is a count of microseconds (datetime); pandas holds
\* nanoseconds, the DateTime column microseconds
ToDatetime(us)  == us * 1000
StoreDate(ns)   == ns \div 1000
LoadDate(us)    == us * 1000

\* db_utils.py:126-127: Date through pd.to_datetime, then one INSERT of the
\* row; the id column takes the next value of its sequence
Row(id, rec) ==
    [id |-> id, Date |-> StoreDate(ToDatetime(rec.Date)), Coin |-> rec.Coin,
     Actual_Price |-> rec.Actual_Price,
     user_feedback |-> rec.user_feedback, user_correction |-> rec.user_correction]

AfterFailedSaveKeepsRowsMutant(committed, pending) == committed \o pending

\* db_utils.py:127-131: to_sql runs in one transaction; when it raises, the
\* transaction is rolled back and the committed rows are what they were
AfterFailedSave(committed, pending) == committed

\* db_utils.py:127: the commit at the end of to_sql
AfterCommit(committed, pending) == committed \o pending

OnSaveExceptionRaisesMutant == "raised"

\* daily_runner.py:187-190: except Exception around save_forecast_results:
\* the error is logged and the function returns
OnSaveException == "finished"

Range(seq) == {seq[i] : i \in 1..Len(seq)}

NewestByIdOnlyMutant(rows) ==
    CHOOSE r \in rows : \A q \in rows : q.id <= r.id

\* db_utils.py:137: ORDER BY "Date" DESC, id DESC
Newest(rows) ==
    CHOOSE r \in rows :
        \A q \in rows : q.Date < r.Date \/ (q.Date = r.Date /\ q.id <= r.id)

RECURSIVE OrderByDateIdDesc(_)
OrderByDateIdDesc(rows) ==
    IF rows = {} THEN <<>>
    ELSE <<Newest(rows)>> \o OrderByDateIdDesc(rows \ {Newest(rows)})

\* db_utils.py:133-149: every row in that order, Date through
\* pd.to_datetime; an empty frame when the query raises
load_forecast_results(ok, exists, committed) ==
    IF ok /\ exists
    THEN LET sorted == OrderByDateIdDesc(Range(committed))
         IN  [i \in 1..Len(sorted) |-> [sorted[i] EXCEPT !.Date = LoadDate(@)]]
    ELSE <<>>

\* the feedback fields of the row with that id, <<>> when there is none
FeedbackOf(committed, id) ==
    IF \E i \in 1..Len(committed) : committed[i].id = id
    THEN LET i == CHOOSE i \in 1..Len(committed) : committed[i].id = id
         IN  <<committed[i].user_feedback, committed[i].user_correction>>
    ELSE <<>>

update_feedbackKeepsCorrectionMutant(committed, id, feedback, correction) ==
    [i \in 1..Len(committed) |->
        IF committed[i].id = id
        THEN [committed[i] EXCEPT !.user_feedback = feedback,
                                  !.user_correction =
                                      IF correction = "" /\ @ # None THEN @ ELSE correction]
        ELSE committed[i]]

update_feedbackFirstRowMutant(committed, id, feedback, correction) ==
    [i \in 1..Len(committed) |->
        IF committed[i].id = id \/ (i = 1 /\ FeedbackOf(committed, id) = <<>>)
        THEN [committed[i] EXCEPT !.user_feedback = feedback,
                                  !.user_correction = correction]
        ELSE committed[i]]

update_feedbackAllColumnsMutant(committed, id, feedback, correction) ==
    [i \in 1..Len(committed) |->
        IF committed[i].id = id
        THEN [committed[i] EXCEPT !.user_feedback = feedback,
                                  !.user_correction = correction,
                                  !.Actual_Price = 0]
        ELSE committed[i]]

update_feedbackNoWhereMutant(committed, id, feedback, correction) ==
    [i \in 1..Len(committed) |->
        [committed[i] EXCEPT !.user_feedback = feedback,
                             !.user_correction = correction]]

\* db_utils.py:157-161: UPDATE forecasts SET user_feedback = :feedback,
\* user_correction = :correction WHERE id = :id
update_feedback(committed, id, feedback, correction) ==
    [i \in 1..Len(committed) |->
        IF committed[i].id = id
        THEN [committed[i] EXCEPT !.user_feedback = feedback,
                                  !.user_correction = correction]
        ELSE committed[i]]

----------------------------------------------------------------------------
(* The run and the database.  One iteration of the loop of lines 73-182   *)
(* either ends in continue (lines 80, 182) or appends one record (line    *)
(* 179); here an iteration is taken with either effect and with any       *)
(* closing price, and the run's last lines and db_utils are as written.   *)

FeedbackArgs == {<<"Confirmed", "">>, <<"Denied", "">>, <<"Denied", "wrong">>}

AssetOutcomePersistsMutant ==
    /\ pc = "loop"
    /\ idx <= Len(COINS)
    /\ Len(table) + Len(all_results) < MaxTableRows
    /\ \E price \in 1..MaxPrice :
         /\ all_results' = Append(all_results, Record(Coin, run_time, price))
         /\ table' = Append(table, Row(nextId, Record(Coin, run_time, price)))
    /\ nextId' = nextId + 1
    /\ status' = [status EXCEPT ![Coin] = "ADDED"]
    /\ idx' = idx + 1
    /\ UNCHANGED <<fnVars, pageVars>>
    /\ UNCHANGED <<pc, env, market_data, prophet_price, lstm_price, trace, csv, cause,
                   run_time, runs, log, saveCalls, outcome, tableExists, tx, dashVars>>

\* daily_runner.py:73-182: the effect of one iteration on the batch
AssetOutcome ==
    /\ pc = "loop"
    /\ idx <= Len(COINS)
    /\ \/ /\ status' = [status EXCEPT ![Coin] = "SKIPPED"]
          /\ cause' = [cause EXCEPT ![Coin] = "skipped"]
          /\ UNCHANGED all_results
       \/ /\ Len(table) + Len(all_results) < MaxTableRows
          /\ \E price \in 1..MaxPrice :
               all_results' = Append(all_results, Record(Coin, run_time, price))
          /\ status' = [status EXCEPT ![Coin] = "ADDED"]
          /\ UNCHANGED cause
    /\ idx' = idx + 1
    /\ UNCHANGED <<fnVars, pageVars>>
    /\ UNCHANGED <<pc, env, market_data, prophet_price, lstm_price, trace, csv,
                   run_time, runs, log, saveCalls, outcome, dbVars, dashVars>>

SaveInsertAutocommitMutant ==
    /\ pc = "save"
    /\ Len(tx) < Len(all_results)
    /\ tx' = Append(tx, Row(nextId, all_results[Len(tx) + 1]))
    /\ table' = Append(table, Row(nextId, all_results[Len(tx) + 1]))
    /\ nextId' = nextId + 1
    /\ UNCHANGED <<fnVars, pageVars>>
    /\ UNCHANGED <<runVars, tableExists, dashVars>>

\* db_utils.py:127: to_sql inserts the next row of the frame, inside the
\* transaction it opened: the row is not among the committed rows
SaveInsert ==
    /\ pc = "save"
    /\ Len(tx) < Len(all_results)
    /\ tx' = Append(tx, Row(nextId, all_results[Len(tx) + 1]))
    /\ nextId' = nextId + 1
    /\ UNCHANGED <<fnVars, pageVars>>
    /\ UNCHANGED <<runVars, tableExists, table, dashVars>>

\* db_utils.py:127-128 and daily_runner.py:188: to_sql commits, the save
\* is logged, the run is over
SaveCommit ==
    /\ pc = "save"
    /\ Len(tx) = Len(all_results)
    /\ table' = AfterCommit(table, tx)
    /\ tx' = <<>>
    /\ log' = log \cup {<<"INFO", "saved", "">>}
    /\ pc' = "done"
    /\ outcome' = "finished"
    /\ UNCHANGED <<fnVars, pageVars>>
    /\ UNCHANGED <<idx, env, market_data, prophet_price, lstm_price, status, cause,
                   trace, csv, all_results, run_time, runs, saveCalls,
                   tableExists, nextId, dashVars>>

\* db_utils.py:129-131 and daily_runner.py:189-190: to_sql raises (at any
\* row, or at the commit); save_forecast_results logs and re-raises, the
\* caller's handler takes over
SaveFail ==
    /\ pc = "save"
    /\ table' = AfterFailedSave(table, tx)
    /\ tx' = <<>>
    /\ log' = log \cup {<<"ERROR", "save_forecast_results", "">>,
                        <<"ERROR", "run_daily_analysis", "">>}
    /\ pc' = IF OnSaveException = "finished" THEN "done" ELSE "exit"
    /\ outcome' = OnSaveException
    /\ UNCHANGED <<fnVars, pageVars>>
    /\ UNCHANGED <<idx, env, market_data, prophet_price, lstm_price, status, cause,
                   trace, csv, all_results, run_time, runs, saveCalls,
                   tableExists, nextId, dashVars>>

\* dashboard_app.py:21-24, db_utils.py:133-149
Load ==
    /\ \E ok \in BOOLEAN :
         /\ loaded' = load_forecast_results(ok, tableExists, table)
         /\ lastOp' = [NoOp EXCEPT !.op = "load", !.ok = (ok /\ tableExists),
                                   !.n = lastOp.n, !.rows = Len(table)]
    /\ UNCHANGED <<fnVars, pageVars>>
    /\ UNCHANGED <<runVars, dbVars>>

\* dashboard_app.py:257-275, db_utils.py:151-166: returns True after the
\* commit, False when the database raises (nothing is changed then);
\* before is what the two feedback fields of the row held when it was called
UpdateFeedback ==
    /\ lastOp.n < MaxFeedbackCalls
    /\ \E id \in 1..nextId, a \in FeedbackArgs, ok \in BOOLEAN :
         /\ table' = IF ok /\ tableExists
                     THEN update_feedback(table, id, a[1], a[2])
                     ELSE table
         /\ lastOp' = [op |-> "update", id |-> id, feedback |-> a[1],
                       correction |-> a[2], ok |-> (ok /\ tableExists),
                       n |-> lastOp.n + 1, rows |-> Len(table),
                       again |-> /\ ok /\ tableExists
                                 /\ lastOp.op = "update" /\ lastOp.ok
                                 /\ lastOp.rows = Len(table)
                                 /\ lastOp.id = id
                                 /\ lastOp.feedback = a[1]
                                 /\ lastOp.correction = a[2],
                       before |-> FeedbackOf(table, id)]
    /\ UNCHANGED <<fnVars, pageVars>>
    /\ UNCHANGED <<runVars, tableExists, nextId, tx, loaded>>

NextDb ==
    \/ RunStart
    \/ AssetOutcome
    \/ RunFinish
    \/ SaveInsert
    \/ SaveCommit
    \/ SaveFail
    \/ Load

SpecDb == Init /\ [][NextDb]_vars

----------------------------------------------------------------------------
(* The dashboard's feedback buttons, against the rows of one run *)

InitFb ==
    /\ pc = "start"
    /\ idx = 0
    /\ env = NoEnv
    /\ market_data = EmptyFrame
    /\ prophet_price = 0
    /\ lstm_price = 0
    /\ status = NoRecordYet
    /\ cause = [c \in Coins |-> "none"]
    /\ trace = [c \in Coins |-> <<>>]
    /\ csv = {}
    /\ all_results = <<>>
    /\ run_time = 0
    /\ runs = MaxRuns - 1
    /\ log = {}
    /\ saveCalls = 0
    /\ outcome = "none"
    /\ tableExists \in BOOLEAN
    /\ table = <<>>
    /\ nextId = 1
    /\ tx = <<>>
    /\ loaded = <<>>
    /\ lastOp = NoOp
    /\ fnCall = NoCall
    /\ fnResult = NoCall
    /\ cache = NoEntry
    /\ page = NoPage

\* db_utils.py:108-120, as daily_runner.py:61-66 calls it on a start of the
\* script, at any moment of the run that is followed here and between
\* feedback updates; when it raises nothing is created
InitDb ==
    /\ \E ok \in BOOLEAN :
         /\ tableExists' = IF ok THEN init_db(tableExists, table).exists ELSE tableExists
         /\ table' = IF ok THEN init_db(tableExists, table).rows ELSE table
         /\ lastOp' = [NoOp EXCEPT !.op = "init", !.ok = ok, !.n = lastOp.n,
                                   !.rows = Len(table)]
    /\ UNCHANGED <<fnVars, pageVars>>
    /\ UNCHANGED <<runVars, nextId, tx, loaded>>

NextFb ==
    \/ RunStart
    \/ AssetOutcome
    \/ RunFinish
    \/ SaveInsert
    \/ SaveCommit
    \/ SaveFail
    \/ UpdateFeedback
    \/ InitDb

SpecFb == InitFb /\ [][NextFb]_vars

----------------------------------------------------------------------------
(* One run when every call it makes returns or raises: an iteration of    *)
(* the loop, the end of the loop and the steps of the save are taken when *)
(* they can be.  A new run need not start and the dashboard need not load. *)

RunStep ==
    \/ AssetOutcome
    \/ RunFinish
    \/ SaveInsert
    \/ SaveCommit
    \/ SaveFail

SpecLive == InitFb /\ [][NextDb]_vars /\ WF_vars(RunStep)

----------------------------------------------------------------------------
(* Lines 94-178 of an iteration and the functions they call, applied to   *)
(* every value the lines before them can deliver.                         *)

Headline(t, u) == [title |-> t, url |-> u]

\* the headline lists handed to the narrative generator (top_headlines)
HeadlineLists ==
    {<<>>, <<Headline("A", "u1")>>, <<Headline("A", "u1"), Headline("B", "u2")>>,
     <<Headline("B", "u2"), Headline("A", "u1")>>}

\* titles a reply of the model can name as most influential
Selections == {<<>>, <<"B">>, <<"B", "C">>, <<"A", "B">>}

\* daily_runner.py:96-117: the briefing; a forecast is a price or np.nan,
\* a metric is the value of its column in the last row of the frame
Briefings ==
    {[prophet_forecast |-> pf, lstm_forecast |-> lf, metric |-> m, top_headlines |-> h] :
        pf \in Fits, lf \in Fits, m \in [Providers -> 0..MaxMetric], h \in HeadlineLists}

\* analyst.py:35-40: the keys the prompt asks for
AnalystKeys ==
    {"title", "price_action_recap", "bullish_case", "bearish_case", "analyst_hypothesis"}

\* what chat.completions.create and json.loads can give: an exception of
\* the API, a reply that is no JSON, or a JSON object with some keys
AnalystReplies ==
    {[kind |-> "apierror", keys |-> {}, selected |-> <<>>],
     [kind |-> "unparseable", keys |-> {}, selected |-> <<>>]}
    \cup {[kind |-> "json", keys |-> k, selected |-> s] :
            k \in {AnalystKeys, AnalystKeys \ {"bullish_case"}, {}},
            s \in Selections}

\* the text of the reply under key k
ReplyText(k) == [title |-> "ai title", price_action_recap |-> "ai recap",
                 bullish_case |-> "ai bullish", bearish_case |-> "ai bearish",
                 analyst_hypothesis |-> "ai hypothesis"][k]

\* dict.get(key, default) on the parsed reply
Get(reply, k, default) == IF k \in reply.keys THEN ReplyText(k) ELSE default

\* json.dumps of a list and json.loads of the string it gives
JsonDumps(v) == [json |-> v]
JsonLoads(s) == s.json

\* the headlines whose title is one of the selected titles, each as it is
\* in the list
BackMatched(headlines, selected) ==
    SelectSeq(headlines, LAMBDA h : \E i \in 1..Len(selected) : selected[i] = h.title)

\* analyst.py:15-99
get_daily_analysis(client, briefing, reply) ==
    IF ~client
    THEN \* lines 20-25
         [summary |-> "not configured", hypothesis |-> "Configuration error.",
          news_links |-> JsonDumps(<<>>)]
    ELSE IF reply.kind = "json"
    THEN \* lines 66-89
         [summary |-> [bullish |-> Get(reply, "bullish_case", ""),
                       bearish |-> Get(reply, "bearish_case", "")],
          hypothesis |-> Get(reply, "analyst_hypothesis", "No hypothesis generated."),
          news_links |-> JsonDumps(briefing.top_headlines),
          report_title |-> Get(reply, "title", "Daily Analysis"),
          report_recap |-> Get(reply, "price_action_recap", ""),
          report_bullish |-> Get(reply, "bullish_case", ""),
          report_bearish |-> Get(reply, "bearish_case", ""),
          report_hypothesis |-> Get(reply, "analyst_hypothesis", "")]
    ELSE \* lines 91-99
         [summary |-> "api error", hypothesis |-> "str(e)",
          news_links |-> JsonDumps(<<>>),
          report_title |-> "Analysis Failed", report_recap |-> "",
          report_bullish |-> "", report_bearish |-> "", report_hypothesis |-> ""]

\* daily_runner.py:120
CallAnalyst ==
    /\ fnCall = NoCall
    /\ \E client \in BOOLEAN, b \in Briefings, r \in AnalystReplies :
         /\ fnCall' = [fn |-> "get_daily_analysis", client |-> client,
                       briefing |-> b, reply |-> r]
         /\ fnResult' = get_daily_analysis(client, b, r)
    /\ UNCHANGED <<runVars, dbVars, dashVars, pageVars>>

\* an exception that leaves the function
Raise(e) == [raised |-> e]

\* strategy_agent.py:49-65: a format specification such as {price:,.2f}
\* takes a number (np.nan included) and raises on None or a string
Formattable(v) == v \in Int

\* the values the prompt formats
Formatted(briefing) ==
    {briefing.prophet_forecast, briefing.lstm_forecast}
    \cup {briefing.metric[p] : p \in Providers}

\* strategy_agent.py:104: required_keys
StrategyKeys == {"action", "entry_range", "tp1", "tp2", "sl", "confidence", "rationale"}

\* strategy_agent.py:89-101: the API raises, the reply is no JSON, or it is
\* a JSON object with some of the keys and some action
StrategyReplies ==
    {[kind |-> "apierror", keys |-> {}, action |-> ""],
     [kind |-> "unparseable", keys |-> {}, action |-> ""]}
    \cup {[kind |-> "json", keys |-> k, action |-> a] :
            k \in {StrategyKeys, StrategyKeys \ {"sl"}, StrategyKeys \ {"action"}, {}},
            a \in {"BUY", "SELL", "HOLD", "WAIT"}}

\* strategy_agent.py:83-86
default_response(rationale) ==
    [action |-> "HOLD", entry_range |-> "N/A", tp1 |-> 0, tp2 |-> 0, sl |-> 0,
     confidence |-> 0, rationale |-> rationale]

\* the parsed reply: its keys with the model's values
Recommendation(reply) ==
    [k \in reply.keys |->
        IF k = "action" THEN reply.action
        ELSE IF k \in {"entry_range", "rationale"} THEN "ai text" ELSE 1]

get_trade_recommendationNoHandlerMutant(briefing, reply) ==
    IF reply.kind # "json" THEN Raise("Exception")
    ELSE IF ~(StrategyKeys \subseteq reply.keys)
    THEN default_response("invalid structure")
    ELSE Recommendation(reply)

\* strategy_agent.py:10-116: the prompt is built before the try (lines
\* 41-80); the call, the parse and the key check are inside it
get_trade_recommendation(briefing, reply) ==
    IF \E v \in Formatted(briefing) : ~Formattable(v) THEN Raise("ValueError")
    ELSE IF reply.kind # "json" THEN default_response("api or processing error")
    ELSE IF ~(StrategyKeys \subseteq reply.keys)
    THEN default_response("invalid structure")
    ELSE Recommendation(reply)

\* daily_runner.py:123
CallStrategist ==
    /\ fnCall = NoCall
    /\ \E b \in Briefings, r \in StrategyReplies :
         /\ fnCall' = [fn |-> "get_trade_recommendation", briefing |-> b, reply |-> r]
         /\ fnResult' = get_trade_recommendation(b, r)
    /\ UNCHANGED <<runVars, dbVars, dashVars, pageVars>>

\* dict.get(key): None when the key is absent
DictGet(d, k) == IF k \in DOMAIN d THEN d[k] ELSE None

\* daily_runner.py:126-178: the record with its forecast, narrative and
\* trade fields; the forecasts are stored as the forecast functions
\* returned them
Result(coin, t, price, prophet, lstm, analysis, recommendation) ==
    [Date |-> t, Coin |-> coin, Actual_Price |-> price,
     Prophet_Forecast |-> prophet,
     LSTM_Forecast |-> lstm,
     analysis_summary |-> DictGet(analysis, "summary"),
     analysis_hypothesis |-> DictGet(analysis, "hypothesis"),
     analysis_news_links |-> DictGet(analysis, "news_links"),
     user_feedback |-> None, user_correction |-> None,
     report_title |-> DictGet(analysis, "report_title"),
     report_recap |-> DictGet(analysis, "report_recap"),
     report_bullish |-> DictGet(analysis, "report_bullish"),
     report_bearish |-> DictGet(analysis, "report_bearish"),
     report_hypothesis |-> DictGet(analysis, "report_hypothesis"),
     trade_action |-> DictGet(recommendation, "action"),
     trade_entry_range |-> DictGet(recommendation, "entry_range"),
     trade_tp1 |-> DictGet(recommendation, "tp1"),
     trade_tp2 |-> DictGet(recommendation, "tp2"),
     trade_sl |-> DictGet(recommendation, "sl"),
     trade_confidence |-> DictGet(recommendation, "confidence"),
     trade_rationale |-> DictGet(recommendation, "rationale")]

\* the briefing of lines 96-117 when no headline was found
PlainBriefing(pf, lf) ==
    [prophet_forecast |-> pf, lstm_forecast |-> lf,
     metric |-> [p \in Providers |-> 0], top_headlines |-> <<>>]

\* daily_runner.py:89-90 and 96-178: from the two forecasts to the record,
\* through the analyst and the strategist
AssembleRecord ==
    /\ fnCall = NoCall
    /\ \E c \in Coins, t \in 1..MaxDate, price \in 1..MaxPrice, pf \in Fits, lf \in Fits,
          client \in BOOLEAN, ar \in AnalystReplies, sr \in StrategyReplies :
         /\ fnCall' = [fn |-> "result", prophet_price |-> pf, lstm_price |-> lf,
                       client |-> client, analyst |-> ar, strategist |-> sr]
         /\ fnResult' = Result(c, t, price, pf, lf,
                               get_daily_analysis(client, PlainBriefing(pf, lf), ar),
                               get_trade_recommendation(PlainBriefing(pf, lf), sr))
    /\ UNCHANGED <<runVars, dbVars, dashVars, pageVars>>

\* lengths of the frames handed to the forecast functions
FrameLengths == {0, 1, 30, LookBack - 1, LookBack, LookBack + 1, MinRows + MaxExtraRows}

\* forecasting.py:12-48 and 50-104 on a frame of any length; a fit raises
\* or predicts
CallForecasts ==
    /\ fnCall = NoCall
    /\ \E n \in FrameLengths, pfit \in Fits, lfit \in Fits :
         /\ fnCall' = [fn |-> "forecasts", rows |-> n, prophet_fit |-> pfit,
                       lstm_fit |-> lfit]
         /\ fnResult' = [prophet |-> prophet_forecast([EmptyFrame EXCEPT !.rows = n], pfit),
                         lstm |-> lstm_forecast([EmptyFrame EXCEPT !.rows = n], lfit)]
    /\ UNCHANGED <<runVars, dbVars, dashVars, pageVars>>

\* db_utils.py:26-30: the five discrete connection parameters
DbParams == {"DB_USER", "DB_PASSWORD", "DB_HOST", "DB_PORT", "DB_NAME"}

\* values of DATABASE_URL: not set, set to the empty string, a URL of the
\* old postgres:// scheme, a URL of another scheme
DatabaseUrls == {"<unset>", "", "postgres://h/db", "postgresql+psycopg://h/db"}

\* the sets of discrete parameters that are set to a non-empty value
ParamSettings == {DbParams, {}} \cup {DbParams \ {p} : p \in DbParams}

\* db_utils.py:21-22: postgres:// is rewritten for the psycopg driver
Rewritten(url) == IF url = "postgres://h/db" THEN "postgresql+psycopg://h/db" ELSE url

engineLocalFirstMutant(url, params) ==
    IF params = DbParams THEN [kind |-> "local", url |-> "", params |-> params]
    ELSE IF url \notin {"<unset>", ""} THEN [kind |-> "url", url |-> Rewritten(url), params |-> {}]
    ELSE Raise("Exception")

\* db_utils.py:15-39, run when the module is loaded: the engine, or the
\* exception of line 33
engine(url, params) ==
    IF url \notin {"<unset>", ""}
    THEN [kind |-> "url", url |-> Rewritten(url), params |-> {}]
    ELSE IF params # DbParams THEN Raise("Exception")
    ELSE [kind |-> "local", url |-> "", params |-> params]

\* the start of a process: dashboard_app.py:9 and daily_runner.py:37 load
\* db_utils; the dashboard then reads (dashboard_app.py:21-24), the runner
\* calls init_db and exits when it raises (daily_runner.py:61-66), before
\* the loop of line 73
ProcessStart(proc, url, params, initOk) ==
    LET e == engine(url, params)
    IN  IF "raised" \in DOMAIN e THEN [did |-> "nothing", engine |-> e, assets |-> 0]
        ELSE IF proc = "dashboard_app" THEN [did |-> "read", engine |-> e, assets |-> 0]
        ELSE IF ~initOk THEN [did |-> "exit", engine |-> e, assets |-> 0]
        ELSE [did |-> "run", engine |-> e, assets |-> Len(COINS)]

StartProcess ==
    /\ fnCall = NoCall
    /\ \E proc \in {"daily_runner", "dashboard_app"}, url \in DatabaseUrls,
          params \in ParamSettings, initOk \in BOOLEAN :
         /\ fnCall' = [fn |-> "start", proc |-> proc, DATABASE_URL |-> url,
                       params |-> params, initOk |-> initOk]
         /\ fnResult' = ProcessStart(proc, url, params, initOk)
    /\ UNCHANGED <<runVars, dbVars, dashVars, pageVars>>

NextFn ==
    \/ CallAnalyst
    \/ CallStrategist
    \/ AssembleRecord
    \/ CallForecasts
    \/ StartProcess

SpecFn == Init /\ [][NextFn]_vars

----------------------------------------------------------------------------
(* dashboard_app.py:90-119: what the page shows of the loaded rows *)

\* line 101: latest_date = historical_df['Date'].max()
latest_date(historical_df) ==
    CHOOSE d \in {historical_df[i].Date : i \in 1..Len(historical_df)} :
        \A i \in 1..Len(historical_df) : historical_df[i].Date <= d

\* line 102: the rows whose Date is latest_date, in the order of the frame
latest_forecast_df(historical_df) ==
    SelectSeq(historical_df, LAMBDA r : r.Date = latest_date(historical_df))

\* line 108: the options of the coin selector
CoinOptions(historical_df) ==
    IF historical_df = <<>> THEN {}
    ELSE {latest_forecast_df(historical_df)[i].Coin :
            i \in 1..Len(latest_forecast_df(historical_df))}

\* lines 111-113: the first row of latest_forecast_df for the selected coin
coin_forecast(historical_df, selected_coin) ==
    SelectSeq(latest_forecast_df(historical_df), LAMBDA r : r.Coin = selected_coin)[1]

----------------------------------------------------------------------------
(* dashboard_app.py: a run of the script, top to bottom, and the feedback *)
(* buttons, against one run of daily_runner                               *)

get_historical_dataNoCacheMutant(entry, expired, ok, exists, committed) ==
    [value   |-> load_forecast_results(ok, exists, committed),
     entry   |-> [cached |-> TRUE, rows |-> load_forecast_results(ok, exists, committed)],
     hit     |-> FALSE,
     expired |-> entry.cached /\ expired]

\* dashboard_app.py:21-24: @st.cache_data(ttl=3600); the function has no
\* parameter, so there is one entry.  A value younger than the ttl is
\* handed back without a query; otherwise load_forecast_results runs and
\* what it returns (the empty frame of a failed query included) is cached.
get_historical_data(entry, expired, ok, exists, committed) ==
    IF entry.cached /\ ~expired
    THEN [value |-> entry.rows, entry |-> entry, hit |-> TRUE, expired |-> FALSE]
    ELSE [value   |-> load_forecast_results(ok, exists, committed),
          entry   |-> [cached |-> TRUE, rows |-> load_forecast_results(ok, exists, committed)],
          hit     |-> FALSE,
          expired |-> entry.cached]

\* what a run of the script leaves on the page: the frame of line 90,
\* whether it came from the cache, whether a cached value had expired, and
\* (midsave) whether its query ran while an open to_sql transaction had
\* inserted rows
Drawn(got) ==
    [historical_df |-> got.value, hit |-> got.hit, expired |-> got.expired,
     midsave |-> (~got.hit /\ tx # <<>>)]

\* dashboard_app.py:90-119: a run of the script (a visit, a reload, a change
\* of the selected coin)
PageRun ==
    /\ \E expired \in {FALSE, cache.cached} :
       \E ok \in {TRUE, cache.cached /\ ~expired} :
         LET got == get_historical_data(cache, expired, ok, tableExists, table)
         IN  /\ cache' = got.entry
             /\ page' = Drawn(got)
    /\ UNCHANGED <<runVars, dbVars, dashVars, fnVars>>

\* dashboard_app.py:249-278: a click on Confirm, or on Submit Correction of
\* the Deny form, for the row drawn for a coin.  The click runs the script:
\* line 90 again, the button of that row (key confirm_<id>) is hit when the
\* row is drawn again, update_feedback is called and, when it returns True,
\* st.rerun() runs the script once more, from line 90.  A value cached by
\* the first of the two runs has not expired at the second.
ClickFeedback ==
    /\ lastOp.n < MaxClicks
    /\ page.historical_df # <<>>
    /\ \E c \in CoinOptions(page.historical_df), a \in FeedbackArgs,
          expired \in {FALSE, cache.cached}, ok \in BOOLEAN :
       \E qok \in {TRUE, cache.cached /\ ~expired} :
         LET id    == coin_forecast(page.historical_df, c).id
             got   == get_historical_data(cache, expired, qok, tableExists, table)
             same  == /\ got.value # <<>>
                      /\ c \in CoinOptions(got.value)
                      /\ coin_forecast(got.value, c).id = id
             saved == same /\ ok /\ tableExists
             after == IF saved THEN update_feedback(table, id, a[1], a[2]) ELSE table
         IN  /\ table' = after
             /\ IF saved
                THEN \E expired2 \in {FALSE, got.hit} :
                     \E qok2 \in {TRUE, ~expired2} :
                       LET again == get_historical_data(got.entry, expired2, qok2,
                                                        tableExists, after)
                       IN  /\ cache' = again.entry
                           /\ page' = Drawn(again)
                ELSE /\ cache' = got.entry
                     /\ page' = Drawn(got)
             /\ IF same
                THEN lastOp' = [op |-> "update", id |-> id, feedback |-> a[1],
                                correction |-> a[2], ok |-> (ok /\ tableExists),
                                n |-> lastOp.n + 1, rows |-> Len(table),
                                again |-> FALSE,
                                before |-> FeedbackOf(table, id)]
                ELSE UNCHANGED lastOp
    /\ UNCHANGED <<runVars, tableExists, nextId, tx, loaded, fnVars>>

NextDash ==
    \/ RunStart
    \/ AssetOutcome
    \/ RunFinish
    \/ SaveInsert
    \/ SaveCommit
    \/ SaveFail
    \/ PageRun
    \/ ClickFeedback

SpecDash == InitFb /\ [][NextDash]_vars

----------------------------------------------------------------------------
(* Claims about the run as written (Spec) *)

\* the steps of an iteration where the code raised
ExceptionCauses == {"csv", "sentiment"}

RecordsOf(c) == {k \in 1..Len(all_results) : all_results[k].Coin = c}

PositionOf(c) == CHOOSE i \in 1..Len(COINS) : COINS[i] = c

\* C1: an exception raised while one asset is processed moves only that
\* asset to SKIPPED: the error is logged, no record of the asset is in the
\* batch, the run is not aborted, and when the run has finished every asset
\* after it in COINS has been processed.
C1_ExceptionSkipsOnlyThatAsset ==
    \A c \in Coins :
        cause[c] \in ExceptionCauses =>
            /\ status[c] = "SKIPPED"
            /\ <<"ERROR", "asset", c>> \in log
            /\ RecordsOf(c) = {}
            /\ pc # "exit"
            /\ outcome \in {"running", "finished"}
            /\ \A d \in Coins :
                 PositionOf(d) > PositionOf(c) =>
                    /\ pc = "loop" /\ idx = PositionOf(c) + 1 => status[d] = "PENDING"
                    /\ outcome = "finished" =>
                          status[d] # "PENDING" /\ trace[d] # <<>>

\* C1 witness: the first asset was skipped by an exception and the run went
\* on to the end, processing the assets after it
C1_Witness ==
    /\ cause[COINS[1]] \in ExceptionCauses
    /\ outcome = "finished"
    /\ \A i \in 2..Len(COINS) : Len(trace[COINS[i]]) >= 1

\* C2: an asset whose fetched frame is empty or has fewer than 61 rows is
\* skipped: only the fetch was run for it, it has no record in the batch,
\* and no asset is past the minimum-data check with such a frame.
C2_InsufficientDataSkips ==
    /\ \A c \in Coins :
         cause[c] = "insufficient" =>
            /\ status[c] = "SKIPPED"
            /\ trace[c] = <<"fetch">>
            /\ RecordsOf(c) = {}
            /\ c \notin csv
    /\ pc \in {"csv", "prophet", "lstm", "highs", "sentiment"} =>
            market_data.rows >= MinRows
    /\ \A c \in Coins : Len(trace[c]) > 1 => cause[c] # "insufficient"
    /\ table = <<>>

\* C2 witness: a run that finished with an asset skipped for lack of data
\* and another that passed the check
C2_Witness ==
    /\ outcome = "finished"
    /\ \E c, d \in Coins : cause[c] = "insufficient" /\ Len(trace[d]) > 1

\* provider p is unavailable to the current fetch: its key is missing, the
\* request raises, or the response is not 2xx
Unavailable(e) == ~e.key \/ e.resp.kind \in {"neterr", "non2xx"}

\* provider p answered with a well-formed response
WellFormed(e) == e.resp.kind = "ok"

\* no request of the current fetch got a malformed response
NoMalformedResponse ==
    \A p \in Providers : env.resp[p].resp.kind \in {"notsent", "neterr", "non2xx", "ok"}

\* provider p answered with a malformed response
Malformed(e) == e.key /\ e.resp.kind \in {"badshape", "nofield", "nullfield"}

\* C3 (as stated): with the price history fetched, and every provider
\* either unavailable (key missing, request failed, status not 2xx) or
\* answering well, the frame keeps its rows, the columns of each
\* unavailable provider hold 0 and the columns of every other provider hold
\* the fetched value.
C3_UnavailableProvidersDefault ==
    (/\ pc = "check"
     /\ env.price.kind = "bars"
     /\ env.price.clean > 0
     /\ \E p \in Providers : Unavailable(env.resp[p])
     /\ NoMalformedResponse)
    => /\ market_data.rows = env.price.clean
       /\ \A p \in Providers :
            market_data.col[p] =
                IF Unavailable(env.resp[p]) THEN 0 ELSE env.resp[p].resp.val

\* C4 (as stated): with enough price history, a malformed response from one
\* provider (the others available and well-formed) leaves the frame
\* non-empty with that provider's columns at 0, and the asset passes the
\* minimum-data check.
C4_MalformedResponseNotFatal ==
    \A p \in Providers :
        (/\ pc = "check"
         /\ env.price.kind = "bars"
         /\ env.price.clean >= MinRows
         /\ Malformed(env.resp[p])
         /\ \A q \in Providers \ {p} : env.resp[q].key /\ WellFormed(env.resp[q]))
        => /\ market_data.rows > 0
           /\ market_data.col[p] = 0
           /\ ~Insufficient(market_data)

\* C5 (as stated): when the run has finished, every asset that passed the
\* minimum-data check and met no failing external call has exactly one row
\* of this run in the table.
C5_OneSnapshotPerAsset ==
    outcome = "finished" =>
        \A c \in Coins :
            (Len(trace[c]) > 1 /\ cause[c] # "csv") =>
                Cardinality({i \in 1..Len(table) :
                                table[i].Coin = c /\ table[i].Date = run_time}) = 1

----------------------------------------------------------------------------
(* Claims about the batch and the database (SpecDb, SpecFb) *)

SaveError == <<"ERROR", "save_forecast_results", "">>

RunError == <<"ERROR", "run_daily_analysis", "">>

Ids(rows) == {rows[i].id : i \in 1..Len(rows)}

\* row r holds record rec as save_forecast_results stores it
Holds(r, rec) ==
    /\ r.Date = StoreDate(ToDatetime(rec.Date))
    /\ r.Coin = rec.Coin
    /\ r.Actual_Price = rec.Actual_Price

\* C6: records are never persisted asset by asset: the table changes only
\* in the one save of a run, which starts after the loop has passed every
\* asset and is given every record assembled in the run; a run saves at
\* most once; an empty batch is logged as a warning, nothing is saved and
\* the run ends normally.
C6_OneSaveAfterLoop ==
    [][/\ table' # table =>
            /\ pc = "save"
            /\ Len(tx) = Len(all_results)
            /\ table' = table \o tx
       /\ saveCalls' <= 1
       /\ pc' = "loop" => saveCalls' = 0 /\ tx' = <<>>
       /\ pc' = "save" =>
            /\ saveCalls' = 1
            /\ idx' > Len(COINS)
            /\ \A c \in Coins : status'[c] \in {"SKIPPED", "ADDED"}
            /\ Len(all_results') = Cardinality({c \in Coins : status'[c] = "ADDED"})
            /\ \A c \in Coins :
                 status'[c] = "ADDED" => \E k \in 1..Len(all_results') :
                                            all_results'[k].Coin = c
            /\ \A k \in 1..Len(tx') : Holds(tx'[k], all_results'[k])
       /\ (pc = "loop" /\ pc' = "done") =>
            /\ all_results' = <<>>
            /\ <<"WARN", "no_results", "">> \in log'
            /\ outcome' = "finished"
            /\ saveCalls' = 0
            /\ table' = table
      ]_vars

\* C6 witness: a run that assembled two records or more and saved them in
\* its one call
C6_Witness ==
    /\ pc = "done"
    /\ saveCalls = 1
    /\ Len(all_results) >= 2
    /\ <<"INFO", "saved", "">> \in log
    /\ Len(table) >= Len(all_results)

\* C7 (as stated): when save_forecast_results raised, the run did not end
\* in its finished state: the exception left run_daily_analysis.
C7_SaveFailurePropagates ==
    SaveError \in log => outcome = "raised" /\ pc = "exit"

\* C7 (amended): when save_forecast_results raised, it logged the error and
\* raised to run_daily_analysis, which logged it in turn and returned: the
\* run ended in its finished state.
C7_SaveFailureLoggedRunFinishes ==
    SaveError \in log =>
        /\ RunError \in log
        /\ outcome = "finished"
        /\ pc = "done"
        /\ <<"INFO", "saved", "">> \notin log

\* C7 witness: a run whose save raised
C7_Witness ==
    /\ SaveError \in log
    /\ all_results # <<>>
    /\ saveCalls = 1

\* C8: save_forecast_results is atomic: a call that fails leaves the table
\* as it was, with no row of the batch; a call that succeeds appends one
\* row for each record of the batch, in order; while a call is running the
\* table has no row of it.
C8_SaveAtomic ==
    [][/\ pc' = "save" => Ids(tx') \cap Ids(table') = {}
       /\ (pc = "save" /\ pc' # "save") =>
            IF SaveError \in log'
            THEN /\ table' = table
                 /\ Ids(tx) \cap Ids(table') = {}
            ELSE /\ Len(table') = Len(table) + Len(all_results)
                 /\ SubSeq(table', 1, Len(table)) = table
                 /\ \A k \in 1..Len(all_results) :
                        Holds(table'[Len(table) + k], all_results[k])
      ]_vars

\* C8 witness: the save of the first run failed after rows had been
\* inserted, and the table is empty
C8_Witness ==
    /\ SaveError \in log
    /\ runs = 1
    /\ nextId > 1
    /\ table = <<>>

\* the last load read the table as it is now and its query did not fail
LoadedNow == lastOp.op = "load" /\ lastOp.ok /\ lastOp.rows = Len(table)

\* C9: a load whose query succeeds returns every persisted row, by Date
\* descending and for equal Date by id descending; after a save of N
\* records, N of the rows have the (Date, Coin, Actual_Price) of the batch.
C9_RoundTrip ==
    LoadedNow =>
        /\ Len(loaded) = Len(table)
        /\ \A i \in 1..Len(table) : \E j \in 1..Len(loaded) :
              /\ loaded[j].id = table[i].id
              /\ loaded[j].Date = LoadDate(table[i].Date)
              /\ loaded[j].Coin = table[i].Coin
              /\ loaded[j].Actual_Price = table[i].Actual_Price
        /\ \A i, j \in 1..Len(loaded) :
              i < j => \/ loaded[i].Date > loaded[j].Date
                       \/ /\ loaded[i].Date = loaded[j].Date
                          /\ loaded[i].id > loaded[j].id
        /\ (pc = "done" /\ <<"INFO", "saved", "">> \in log) =>
              \E f \in [1..Len(all_results) -> 1..Len(loaded)] :
                 /\ \A k, l \in 1..Len(all_results) : k # l => f[k] # f[l]
                 /\ \A k \in 1..Len(all_results) :
                       /\ loaded[f[k]].Date = ToDatetime(all_results[k].Date)
                       /\ loaded[f[k]].Coin = all_results[k].Coin
                       /\ loaded[f[k]].Actual_Price = all_results[k].Actual_Price

\* C9 witness: a load after two saves, the later batch carrying the earlier
\* Date, so that a row with a lower id comes before one with a higher id
C9_Witness ==
    /\ LoadedNow
    /\ pc = "done"
    /\ <<"INFO", "saved", "">> \in log
    /\ \E i, j \in 1..Len(loaded) : i < j /\ loaded[i].id < loaded[j].id

\* the step is a call of update_feedback(id, "Confirmed") that returned True
ConfirmedCall ==
    /\ lastOp'.n = lastOp.n + 1
    /\ lastOp'.op = "update"
    /\ lastOp'.ok
    /\ lastOp'.feedback = "Confirmed"

\* C10: update_feedback(id, "Confirmed") keeps the number of rows, changes
\* no row but the one with that id, and leaves that row Confirmed: it is
\* the one Confirmed row when no other row was; a second call with the same
\* arguments leaves the table as the first call left it.
C10_FeedbackIdempotent ==
    [][ConfirmedCall =>
          /\ Len(table') = Len(table)
          /\ \A i \in 1..Len(table) :
                IF table[i].id = lastOp'.id
                THEN table'[i] = [table[i] EXCEPT !.user_feedback = "Confirmed",
                                                  !.user_correction = ""]
                ELSE table'[i] = table[i]
          /\ ((\E i \in 1..Len(table) : table[i].id = lastOp'.id)
              /\ (\A i \in 1..Len(table) :
                     table[i].id # lastOp'.id => table[i].user_feedback # "Confirmed"))
             => Cardinality({i \in 1..Len(table') :
                                table'[i].user_feedback = "Confirmed"}) = 1
          /\ lastOp'.again => table' = table
      ]_vars

\* C10 witness: the second of two equal calls on a row of a table of two
\* rows or more
C10_Witness ==
    /\ lastOp.op = "update"
    /\ lastOp.again
    /\ lastOp.feedback = "Confirmed"
    /\ Len(table) >= 2
    /\ \E i \in 1..Len(table) :
          table[i].id = lastOp.id /\ table[i].user_feedback = "Confirmed"

\* the step is a call of update_feedback
FeedbackCall == lastOp'.n = lastOp.n + 1 /\ lastOp'.op = "update"

\* the columns of a row that are not feedback fields
Snapshot(r) == [id |-> r.id, Date |-> r.Date, Coin |-> r.Coin,
                Actual_Price |-> r.Actual_Price]

\* C11: update_feedback(id, ...) keeps the number of rows, leaves every
\* other row as it was and changes no column of the row with that id but
\* user_feedback and user_correction; no other step changes a row that is
\* in the table: rows are only added after them.
C11_FeedbackFrame ==
    [][/\ Len(table') >= Len(table)
       /\ FeedbackCall => Len(table') = Len(table)
       /\ \A i \in 1..Len(table) :
             IF FeedbackCall /\ table[i].id = lastOp'.id
             THEN Snapshot(table'[i]) = Snapshot(table[i])
             ELSE table'[i] = table[i]
      ]_vars

\* C11 witness: a call that denied one row of two with a correction, the
\* other row without feedback
C11_Witness ==
    /\ lastOp.op = "update"
    /\ lastOp.ok
    /\ lastOp.correction = "wrong"
    /\ \E i, j \in 1..Len(table) :
          /\ table[i].id = lastOp.id
          /\ table[i].user_feedback = "Denied"
          /\ table[i].user_correction = "wrong"
          /\ table[i].Actual_Price > 0
          /\ j # i
          /\ table[j].user_feedback = None

\* the step is a call of init_db: init_db is the last database call and the
\* step is none of the run or of its save
InitCall ==
    /\ lastOp'.op = "init"
    /\ UNCHANGED <<runVars, nextId, tx>>

\* C12: init_db creates the forecasts table only when there is none; a
\* call that finds the table leaves it and every row as they are, whatever
\* saves and feedback updates came before and whatever the run is doing;
\* no step removes the table.
C12_InitDbIdempotent ==
    [][/\ tableExists => tableExists'
       /\ InitCall =>
            /\ table' = table
            /\ tableExists' = (tableExists \/ lastOp'.ok)
            /\ ~tableExists => table' = <<>>
      ]_vars

\* C12 witness: init_db ran on a table of two rows or more, one of them
\* with feedback, and the table has as many rows since
C12_Witness ==
    /\ lastOp.op = "init"
    /\ lastOp.ok
    /\ lastOp.rows >= 2
    /\ Len(table) = lastOp.rows
    /\ \E i \in 1..Len(table) : table[i].user_feedback # None

----------------------------------------------------------------------------
(* Claims about the functions applied on their own (SpecFn) *)

\* C13 (as stated): when the model's reply was parsed, news_links holds
\* the headlines whose title the model selected and that are in the list
\* handed in, each with its URL, and no other (headlines A:u1, B:u2 with
\* the selection B, C give B:u2).
C13_BackMatching ==
    (/\ fnCall.fn = "get_daily_analysis"
     /\ fnCall.client
     /\ fnCall.reply.kind = "json")
    => JsonLoads(fnResult.news_links)
          = BackMatched(fnCall.briefing.top_headlines, fnCall.reply.selected)

\* the call returned a dictionary: no exception left the function
ReturnedDict == "raised" \notin DOMAIN fnResult /\ "summary" \in DOMAIN fnResult

ReturnedRecommendation == "raised" \notin DOMAIN fnResult

C15_SentinelReplacedByZero ==
    fnCall.fn = "result" =>
        /\ fnCall.prophet_price = NaN => fnResult.Prophet_Forecast = 0
        /\ fnCall.lstm_price = NaN => fnResult.LSTM_Forecast = 0
        /\ fnResult.Prophet_Forecast # NaN
        /\ fnResult.LSTM_Forecast # NaN

\* C16: on a frame of at most look_back_period (60) rows lstm_forecast
\* returns np.nan whatever a fit would give; on 61 rows or more it returns
\* what the fit gives, np.nan when the fit raises; prophet_forecast returns
\* np.nan on an empty frame and what its fit gives on any other, np.nan
\* when the fit raises; neither raises.
C16_ForecastSentinels ==
    fnCall.fn = "forecasts" =>
        /\ fnCall.rows <= 60 => fnResult.lstm = NaN
        /\ fnCall.rows >= 61 => fnResult.lstm = fnCall.lstm_fit
        /\ fnCall.rows = 0 => fnResult.prophet = NaN
        /\ fnCall.rows > 0 => fnResult.prophet = fnCall.prophet_fit
        /\ fnResult.lstm \in {NaN} \cup (1..MaxForecast)
        /\ fnResult.prophet \in {NaN} \cup (1..MaxForecast)

\* C16 witness: on a frame of 30 rows, where both fits would predict,
\* lstm_forecast returned np.nan and prophet_forecast a price
C16_Witness ==
    /\ fnCall.fn = "forecasts"
    /\ fnCall.rows = 30
    /\ fnCall.lstm_fit # NaN
    /\ fnResult.lstm = NaN
    /\ fnResult.prophet # NaN

----------------------------------------------------------------------------
(* More claims about the run as written (Spec) *)

\* daily_runner.py:76-92: the steps of an iteration in the order of the
\* lines (the detail file and the highs forecast among them)
StepOrder == <<"fetch", "csv", "prophet", "lstm", "highs", "sentiment">>

IsPrefix(s, t) == Len(s) <= Len(t) /\ \A i \in 1..Len(s) : s[i] = t[i]

Terminal == {"SKIPPED", "ADDED"}

\* C17: the steps run for an asset are an initial part of fetch, forecasts,
\* sentiment in that order, each once; an asset has a step only when every
\* asset before it in COINS is SKIPPED or added; the only asset with steps
\* and no terminal state is the one being processed.
C17_StepsInOrder ==
    /\ \A c \in Coins : IsPrefix(trace[c], StepOrder)
    /\ \A c, d \in Coins :
          (PositionOf(c) < PositionOf(d) /\ trace[d] # <<>>) => status[c] \in Terminal
    /\ \A c \in Coins :
          (status[c] \notin Terminal /\ trace[c] # <<>>) =>
              /\ idx \in 1..Len(COINS)
              /\ c = COINS[idx]
              /\ pc \in {"check", "csv", "prophet", "lstm", "highs", "sentiment"}

\* C17 witness: the first asset went through every step up to sentiment and
\* the second has been fetched
C17_Witness ==
    /\ trace[COINS[1]] = StepOrder
    /\ status[COINS[1]] \in Terminal
    /\ trace[COINS[2]] = <<"fetch">>
    /\ status[COINS[2]] \notin Terminal

\* C18: a run that has started its loop ends, and when it has ended every
\* asset of COINS is in one terminal state: added, with its record in the
\* batch, or SKIPPED, with none.
C18_RunTerminates ==
    (outcome = "running") ~>
        (/\ outcome = "finished"
         /\ \A c \in Coins :
               /\ status[c] \in Terminal
               /\ status[c] = "ADDED" <=> RecordsOf(c) # {})

\* C18 witness: a run has ended with one asset added, its record in the
\* batch, and another skipped
C18_Witness ==
    /\ outcome = "finished"
    /\ \E c, d \in Coins :
          /\ status[c] = "ADDED"
          /\ RecordsOf(c) # {}
          /\ status[d] = "SKIPPED"

----------------------------------------------------------------------------
(* More claims about the functions applied on their own (SpecFn) *)

\* DATABASE_URL is set to a value
UrlSet == fnCall.DATABASE_URL \notin {"<unset>", ""}

\* C19: with DATABASE_URL not set and one of the five parameters missing,
\* loading db_utils raises and the process neither runs nor reads; with
\* DATABASE_URL set the engine is made from it, the same whatever the five
\* parameters are; when init_db fails the run ends with no asset processed.
C19_MissingConfigFatal ==
    fnCall.fn = "start" =>
        /\ (~UrlSet /\ fnCall.params # DbParams) =>
              /\ "raised" \in DOMAIN fnResult.engine
              /\ fnResult.did = "nothing"
        /\ UrlSet =>
              /\ "raised" \notin DOMAIN fnResult.engine
              /\ fnResult.engine.kind = "url"
              /\ \A other \in ParamSettings :
                    engine(fnCall.DATABASE_URL, other) = fnResult.engine
        /\ fnResult.did \in {"run", "read", "exit"} => "raised" \notin DOMAIN fnResult.engine
        /\ (fnCall.proc = "daily_runner" /\ ~fnCall.initOk) =>
              /\ fnResult.did \in {"nothing", "exit"}
              /\ fnResult.assets = 0

\* C19 witness: the dashboard was started with DATABASE_URL not set and
\* DB_PASSWORD missing, and did nothing
C19_Witness ==
    /\ fnCall.fn = "start"
    /\ fnCall.proc = "dashboard_app"
    /\ fnCall.DATABASE_URL = "<unset>"
    /\ fnCall.params = DbParams \ {"DB_PASSWORD"}
    /\ fnResult.did = "nothing"

----------------------------------------------------------------------------
(* More claims about the batch and the database (SpecDb) *)

\* the rows of the table for coin c
RowsOf(c) == {i \in 1..Len(table) : table[i].Coin = c}

\* the most recent row of coin c: the greatest Date, then the greatest id
LatestRowOf(c) ==
    CHOOSE i \in RowsOf(c) :
        \A j \in RowsOf(c) :
            \/ table[j].Date < table[i].Date
            \/ table[j].Date = table[i].Date /\ table[j].id <= table[i].id

\* C20 (as stated): after a load of the table as it is, every asset with a
\* persisted row is among the options of the coin selector and the row
\* shown for it is its most recent row.
C20_LatestRowPerAsset ==
    LoadedNow =>
        \A c \in Coins :
            RowsOf(c) # {} =>
                /\ c \in CoinOptions(loaded)
                /\ coin_forecast(loaded, c).id = table[LatestRowOf(c)].id

----------------------------------------------------------------------------
(* Claims about the dashboard page (SpecDash) *)

\* the step is a run of the dashboard script whose get_historical_data ran
\* load_forecast_results, and nothing else happened
QueryStep == ~page'.hit /\ UNCHANGED <<runVars, dbVars>>

Saved == pc = "done" /\ <<"INFO", "saved", "">> \in log

\* the ids of the rows of the run's batch: those its save is inserting, or
\* those it has committed
BatchIds ==
    IF pc = "save"
    THEN (nextId - Len(tx)) .. (nextId - Len(tx) + Len(all_results) - 1)
    ELSE IF Saved THEN (nextId - Len(all_results)) .. (nextId - 1) ELSE {}

\* C21: a load_forecast_results that runs at any moment of a run's save
\* returns every row of the run's batch or none: none while the save is
\* under way, whatever it has inserted, and all once it has committed
\* (when the query itself does not fail: it then returns no row at all).
C21_ReadSeesAllOrNone ==
    [][QueryStep =>
          /\ Ids(page'.historical_df) \cap BatchIds \in {{}, BatchIds}
          /\ Ids(page'.historical_df) \in {{}, Ids(table)}
          /\ pc = "save" => Ids(page'.historical_df) \cap BatchIds = {}
          /\ (Saved /\ page'.historical_df # <<>>) =>
                BatchIds \subseteq Ids(page'.historical_df)
      ]_vars

\* C21 witness: the dashboard queried while the save of a batch of two
\* records or more had inserted some of them and not all
C21_Witness ==
    /\ page.midsave
    /\ ~page.hit
    /\ pc = "save"
    /\ tx # <<>>
    /\ Len(tx) < Len(all_results)
    /\ Ids(page.historical_df) \cap Ids(tx) = {}

----------------------------------------------------------------------------
(* Claims about the generators and the forecasts (SpecFn) *)

\* strategy_agent.py:73: the actions the prompt asks for
Actions == {"BUY", "SELL", "HOLD"}

\* the reply parsed as JSON and holds the seven keys
CompleteReply == fnCall.reply.kind = "json" /\ StrategyKeys \subseteq fnCall.reply.keys

\* C22 (as stated): get_trade_recommendation returns the model's reply only
\* when it parsed as JSON with all seven keys, and in every other case the
\* default (HOLD, N/A, and 0 for tp1, tp2, sl, confidence); every returned
\* object has the seven keys and an action among BUY, SELL, HOLD.
C22_RecommendationWellFormed ==
    fnCall.fn = "get_trade_recommendation" =>
        /\ CompleteReply => fnResult = Recommendation(fnCall.reply)
        /\ ~CompleteReply =>
              /\ fnResult.action = "HOLD"
              /\ fnResult.entry_range = "N/A"
              /\ fnResult.tp1 = 0 /\ fnResult.tp2 = 0 /\ fnResult.sl = 0
              /\ fnResult.confidence = 0
        /\ DOMAIN fnResult = StrategyKeys
        /\ fnResult.action \in Actions

\* analyst.py:74-84: the keys of the report get_daily_analysis returns
NarrativeKeys ==
    {"summary", "hypothesis", "news_links", "report_title", "report_recap",
     "report_bullish", "report_bearish", "report_hypothesis"}

\* daily_runner.py:157-168: the narrative fields of the record
NarrativeFields ==
    {"analysis_summary", "analysis_hypothesis", "analysis_news_links", "report_title",
     "report_recap", "report_bullish", "report_bearish", "report_hypothesis"}

\* C23 (as stated): whatever path get_daily_analysis returns by (client not
\* configured, reply parsed, API or parse failure), the dictionary has the
\* same eight keys, and no narrative field of an assembled record is None.
C23_FixedNarrativeKeys ==
    /\ fnCall.fn = "get_daily_analysis" => DOMAIN fnResult = NarrativeKeys
    /\ fnCall.fn = "result" => \A f \in NarrativeFields : fnResult[f] # None

----------------------------------------------------------------------------
(* More claims about the run as written (Spec), second part *)

\* a provider helper raised during the current fetch
HelperRaised(e) == \E p \in Providers : Helper(p, e.resp[p]).kind = "raise"

\* C24: fetch_data returns a frame whatever happens: the empty frame when
\* the price download raises or returns no bar, and then no metric provider
\* was called, and the empty frame when a step after the download raises;
\* the orchestrator skips an asset whose frame is empty, with a warning and
\* no further step.
C24_FetchNeverRaises ==
    [][/\ pc' = "check" =>
            /\ market_data'.rows \in 0..(MinRows + MaxExtraRows)
            /\ env'.price.kind # "bars" =>
                  /\ market_data' = EmptyFrame
                  /\ ProvidersCalled(env') = {}
            /\ HelperRaised(env') => market_data' = EmptyFrame
       /\ (pc = "check" /\ market_data = EmptyFrame) =>
            /\ status'[Coin] = "SKIPPED"
            /\ cause'[Coin] = "insufficient"
            /\ <<"WARN", "insufficient", Coin>> \in log'
            /\ <<"ERROR", "asset", Coin>> \notin log'
            /\ trace'[Coin] = <<"fetch">>
            /\ pc' = "loop"
            /\ idx' = idx + 1
            /\ all_results' = all_results
      ]_vars

\* C24 witness: the download gave bars enough, a provider helper raised
\* inside fetch_data, and the frame handed to the orchestrator is empty
C24_Witness ==
    /\ pc = "check"
    /\ env.price.kind = "bars"
    /\ env.price.clean >= MinRows
    /\ HelperRaised(env)
    /\ market_data = EmptyFrame

\* C25: no run of daily_runner as written persists a snapshot.  Loading
\* the module with the forecasting.py of the repository ends in exit(1);
\* and with a forecasting module that has the missing function, the call
\* of line 92 raises in every iteration that reaches it: no iteration gets
\* past it, every asset that passed the minimum-data check ends SKIPPED,
\* the batch is empty, the run warns that there is nothing to save and the
\* table stays empty.
C25_NothingEverPersisted ==
    /\ ModuleLoad = "exit1"
    /\ pc \in {"start", "loop", "check", "csv", "prophet", "lstm", "highs", "sentiment",
               "done", "exit"}
    /\ all_results = <<>>
    /\ table = <<>>
    /\ tx = <<>>
    /\ saveCalls = 0
    /\ \A c \in Coins :
          /\ status[c] # "ADDED"
          /\ (Len(trace[c]) > 1 /\ (idx > PositionOf(c) \/ outcome = "finished")) =>
                /\ status[c] = "SKIPPED"
                /\ cause[c] \in ExceptionCauses
          /\ (trace[c] = StepOrder /\ (pc # "sentiment" \/ Coin # c)) =>
                cause[c] = "sentiment"
    /\ outcome = "finished" => <<"WARN", "no_results", "">> \in log

\* C25 witness: a run has ended in which every asset passed the
\* minimum-data check and reached the call of line 92
C25_Witness ==
    /\ outcome = "finished"
    /\ \A c \in Coins : trace[c] = StepOrder /\ cause[c] = "sentiment"
    /\ all_results = <<>>
    /\ table = <<>>

----------------------------------------------------------------------------
(* More claims about the batch and the database (SpecDb), second part *)

\* the records of a run carry the run's one timestamp and distinct coins
OneDateDistinctCoins ==
    /\ \A k \in 1..Len(all_results) : all_results[k].Date = run_time
    /\ \A k, l \in 1..Len(all_results) :
          k # l => all_results[k].Coin # all_results[l].Coin

\* the rows the Date filter of the dashboard keeps are the rows of the
\* batch the run has saved
FilterKeepsBatch == Ids(latest_forecast_df(loaded)) = BatchIds

\* datetime.now() of the run is later than the Date of every row persisted
\* before the run
ClockAdvanced ==
    \A i \in 1..Len(table) :
        table[i].id \notin BatchIds => table[i].Date < StoreDate(ToDatetime(run_time))

\* C26 (as stated): the records of a run carry one Date and distinct coins,
\* and after a run has saved its batch the rows with Date = max(Date) of a
\* load are exactly the rows of that run.
C26_LatestDateIsLatestRun ==
    /\ OneDateDistinctCoins
    /\ (Saved /\ LoadedNow) => FilterKeepsBatch

\* C26 (amended): the records of a run carry one Date and distinct coins;
\* after a run has saved its batch, and when its timestamp is later than
\* the Date of every row persisted before, the rows with Date = max(Date)
\* of a load are exactly the rows of that run, one for each of its coins.
C26_LatestDateIsLatestRunWhenClockAdvances ==
    /\ OneDateDistinctCoins
    /\ (Saved /\ LoadedNow /\ ClockAdvanced) =>
          /\ FilterKeepsBatch
          /\ Len(latest_forecast_df(loaded)) = Len(all_results)
          /\ CoinOptions(loaded) = {all_results[k].Coin : k \in 1..Len(all_results)}

\* C26 witness: the second run saved a batch of two with a later timestamp
\* than the row of the first run, and the dashboard loaded
C26_Witness ==
    /\ Saved
    /\ LoadedNow
    /\ ClockAdvanced
    /\ Len(all_results) = 2
    /\ Len(table) = 3
    /\ Len(latest_forecast_df(loaded)) = 2

----------------------------------------------------------------------------
(* More claims about the feedback fields (SpecFb) *)

\* the step is a call of update_feedback that returned True
FeedbackSaved == FeedbackCall /\ lastOp'.ok

\* C27: update_feedback overwrites both feedback fields with its own
\* arguments whatever they held: after the call the row holds the feedback
\* and the correction of this call and nothing of an earlier one; a Confirm
\* (whose correction is the empty string) on a row that was Denied with a
\* correction leaves Confirmed and the empty string.
C27_LastFeedbackWins ==
    [][FeedbackSaved =>
          \A i \in 1..Len(table) :
              table[i].id = lastOp'.id =>
                  /\ FeedbackOf(table', lastOp'.id) = <<lastOp'.feedback, lastOp'.correction>>
                  /\ table'[i] = [table[i] EXCEPT !.user_feedback = lastOp'.feedback,
                                                  !.user_correction = lastOp'.correction]
                  /\ (lastOp'.feedback = "Confirmed" /\ lastOp'.before = <<"Denied", "wrong">>)
                        => table'[i].user_correction = ""
      ]_vars

\* C27 witness: a row Denied with a correction has been Confirmed, and the
\* correction is gone
C27_Witness ==
    /\ lastOp.op = "update"
    /\ lastOp.ok
    /\ lastOp.feedback = "Confirmed"
    /\ lastOp.before = <<"Denied", "wrong">>
    /\ FeedbackOf(table, lastOp.id) = <<"Confirmed", "">>

\* C28: update_feedback with an id that no row has returns True when the
\* database does not raise, and changes no row; a call that returns False
\* (the database raised) changes no row either.
C28_UnknownIdReportedSaved ==
    [][FeedbackCall =>
          /\ lastOp'.before = <<>> <=> ~(\E i \in 1..Len(table) : table[i].id = lastOp'.id)
          /\ lastOp'.before = <<>> => table' = table
          /\ ~lastOp'.ok => table' = table
          /\ (lastOp'.ok /\ lastOp'.before # <<>>) =>
                FeedbackOf(table', lastOp'.id) = <<lastOp'.feedback, lastOp'.correction>>
      ]_vars

\* C28 witness: a call with an id that no row of the table has returned
\* True, and the rows of the table have no feedback
C28_Witness ==
    /\ lastOp.op = "update"
    /\ lastOp.ok
    /\ lastOp.before = <<>>
    /\ lastOp.n = 1
    /\ Len(table) >= 1
    /\ \A i \in 1..Len(table) : table[i].user_feedback = None /\ table[i].id # lastOp.id

----------------------------------------------------------------------------
(* More claims about the dashboard page (SpecDash) *)

\* the step is of the dashboard: the run and its save did nothing
DashStep == UNCHANGED <<runVars, tableExists, nextId, tx>>

\* what a query of the table as it is before the step returns
QueryNow == load_forecast_results(TRUE, tableExists, table)

\* C29: no write invalidates the cached value of get_historical_data.  A
\* step of the run or of its save leaves the cache and the page as they
\* are; a run of the script that finds a cached value that has not expired
\* draws that value and keeps it, whatever the table holds; the rerun after
\* a saved feedback draws rows read before the update unless the cached
\* value had just expired; and the page always shows what the cache holds.
C29_CacheNotInvalidated ==
    [][/\ ~DashStep => cache' = cache /\ page' = page
       /\ page' # NoPage => cache'.cached /\ page'.historical_df = cache'.rows
       /\ (DashStep /\ ~FeedbackSaved /\ cache.cached /\ ~page'.expired) =>
             /\ page'.hit
             /\ page'.historical_df = cache.rows
             /\ cache' = cache
       /\ (DashStep /\ FeedbackSaved /\ ~page'.expired) =>
             /\ page'.hit
             /\ page'.historical_df \in {cache.rows, QueryNow}
      ]_vars

\* C29 witness: a click on Confirm was saved, the row is Confirmed in the
\* table, and the page drawn by the rerun shows it without feedback, next
\* to every row of the batch
C29_Witness ==
    /\ lastOp.op = "update"
    /\ lastOp.ok
    /\ lastOp.feedback = "Confirmed"
    /\ FeedbackOf(table, lastOp.id) = <<"Confirmed", "">>
    /\ page.hit
    /\ Len(page.historical_df) = Len(table)
    /\ FeedbackOf(page.historical_df, lastOp.id) = <<None, None>>

----------------------------------------------------------------------------
(* More claims about the run as written (Spec), third part *)

\* the table has a row of this run for coin c
PersistedThisRun(c) ==
    \E i \in 1..Len(table) :
        table[i].Coin = c /\ table[i].Date = StoreDate(ToDatetime(run_time))

\* C30: the detail file of an asset is written right after the
\* minimum-data check, before the forecasts, the LLM steps and the save:
\* the step that writes it has only the fetch before it and leaves batch
\* and table alone, every asset that got to its forecasts has its file, and
\* an asset that failed after the write has this run's file and no row of
\* this run in the batch or the table.
C30_DetailFileBeforePersistence ==
    [][/\ csv' # csv =>
            \/ csv' = {} /\ pc' \in {"loop", "exit"} /\ runs' = runs + 1
            \/ /\ pc = "csv"
               /\ ~Insufficient(market_data)
               /\ csv' = csv \cup {Coin}
               /\ trace'[Coin] = <<"fetch", "csv">>
               /\ pc' = "prophet"
               /\ status'[Coin] = "PENDING"
               /\ all_results' = all_results
               /\ table' = table
       /\ \A c \in Coins :
             /\ Len(trace'[c]) > 2 => c \in csv'
             /\ (c \in csv' /\ status'[c] = "SKIPPED") =>
                   /\ RecordsOf(c) = {}
                   /\ ~PersistedThisRun(c)'
      ]_vars

\* C30 witness: the run has ended, the detail file of an asset was written
\* in it, the asset failed at a later step and the table has no row of it
C30_Witness ==
    /\ outcome = "finished"
    /\ \E c \in csv :
          /\ status[c] = "SKIPPED"
          /\ cause[c] = "sentiment"
          /\ ~PersistedThisRun(c)
          /\ \A i \in 1..Len(table) : table[i].Coin # c
====
